---- MODULE Spec2Model ----
(***************************************************************************)
(* Recommendation engine of the carry-helper API (app/crud.py):            *)
(* infer_recommendations, get_activity_extra_recs,                          *)
(* get_friend_carry_recs_from_events and build_mcu_all_items, over the      *)
(* events, activity_item_rules, friends_carry_recommendations, user_shoes   *)
(* and common_items_by_shoe tables, and the request handlers of app/main.py *)
(* that call it.  The engine only reads the tables, so the tables are fixed *)
(* by Init and every action is one call.                                    *)
(***************************************************************************)
EXTENDS Integers, Sequences, FiniteSets

VARIABLES
    users,        \* rows of the users table
    events,       \* rows of the events table (a set: rows are told apart by content)
    rules,        \* rows of activity_item_rules, in the store's row order
    friends,      \* rows of friends_carry_recommendations, in row order
    user_shoes,   \* rows of user_shoes
    shoe_items,   \* rows of common_items_by_shoe, in row order
    call,         \* the last call and its arguments
    ret,          \* what the last call returned (or raised)
    loc           \* local variables of the last call, kept for inspection

vars == <<users, events, rules, friends, user_shoes, shoe_items, call, ret, loc>>

----------------------------------------------------------------------------
\* Values

\* Python's None / SQL NULL
None == "None"

\* Python truthiness of an Optional[str]: None and "" are both falsy
Truthy(x) == x # None /\ x # ""

\* largest timestamp of the model
MaxTime == 2
\* largest number of rows of the events table
MaxEvents == 4
\* largest number of rows of activity_item_rules in the continuation family
MaxRules == 2
\* largest number of rows of activity_item_rules in the scoring family
MaxScoreRules == 3
\* largest number of rows of the events table in the encounter family
MaxMeetings == 3
\* largest number of scored candidates in the ranking family
MaxCand == 6

TOP3_MIN_SCORE == 7
EXTRA_MIN_SCORE == 7
TOP3_LIMIT == 3
EXTRA_MAX == 5
COMMON_ITEMS == <<"phone", "wallet", "key">>

Times == 0..MaxTime
UserIds == {1, 2}
\* events.user_name of a user's events (create_event copies the user's name)
NameOf(uid) == IF uid = 1 THEN "amy" ELSE IF uid = 2 THEN "bob" ELSE "cat"

Range(s) == {s[i] : i \in 1..Len(s)}

\* all sequences over D of length at most n
SeqUpTo(D, n) == UNION {[1..k -> D] : k \in 0..n}

\* all subsets of D with at most n elements
RECURSIVE SubsetsUpTo(_, _)
SubsetsUpTo(D, n) ==
    IF n = 0 THEN {{}}
    ELSE LET P == SubsetsUpTo(D, n - 1)
         IN  P \cup {p \cup {d} : p \in P, d \in D}

----------------------------------------------------------------------------
\* Queries

\* .order_by(Events.start_time.asc()).all() over a set of rows: every order
\* that is ascending in start_time (the order of rows with equal start_time
\* is left to the store)
RECURSIVE OrderByStart(_)
OrderByStart(S) ==
    IF S = {} THEN {<<>>}
    ELSE LET m == CHOOSE t \in {e.start_time : e \in S} :
                      \A e \in S : t <= e.start_time
         IN  UNION {{<<e>> \o rest : rest \in OrderByStart(S \ {e})} :
                        e \in {x \in S : x.start_time = m}}

\* .limit(n)
Limit(s, n) == IF Len(s) <= n THEN s ELSE SubSeq(s, 1, n)

\* variant of UpcomingOf that forgets the user_id filter
UpcomingOf_AnyUser(user_id, current_time) ==
    {e \in events : e.start_time >= current_time}

\* variant of UpcomingOf that forgets the start_time filter
UpcomingOf_AnyTime(user_id, current_time) ==
    {e \in events : e.user_id = user_id}

\* filter(Events.user_id == user_id, Events.start_time >= current_time)
UpcomingOf(user_id, current_time) ==
    {e \in events : e.user_id = user_id /\ e.start_time >= current_time}

\* _get_main_shoe_for_act: shoe_type of the first rule of the activity with a
\* non-null shoe_type, None when there is none
_get_main_shoe_for_act(act_type) ==
    LET m == SelectSeq(rules, LAMBDA r : r.act_type = act_type /\ r.shoe_type # None)
    IN  IF m = <<>> THEN None ELSE m[1].shoe_type

\* variant of _rules_for_act that forgets the shoe_type filter
_rules_for_act_AnyShoe(act_type, shoe_type) ==
    SelectSeq(rules, LAMBDA r : r.act_type = act_type)

\* _rules_for_act: the activity's rules whose shoe_type is NULL or the worn shoe
_rules_for_act(act_type, shoe_type) ==
    SelectSeq(rules, LAMBDA r : r.act_type = act_type
                                /\ (r.shoe_type = None \/ r.shoe_type = shoe_type))

----------------------------------------------------------------------------
\* get_activity_extra_recs

\* `scores` is a Python dict: a sequence of [name, score] in insertion order
DictGet(d, k) ==
    IF \E i \in 1..Len(d) : d[i].name = k
    THEN (d[CHOOSE i \in 1..Len(d) : d[i].name = k]).score
    ELSE 0

\* scores[k] = scores.get(k, 0) + v
DictAdd(d, k, v) ==
    IF \E i \in 1..Len(d) : d[i].name = k
    THEN [i \in 1..Len(d) |-> IF d[i].name = k
                               THEN [name |-> k, score |-> d[i].score + v]
                               ELSE d[i]]
    ELSE Append(d, [name |-> k, score |-> v])

\* Optional[int] / Optional[datetime]: <<>> is None, <<n>> is the value n
NoInt == <<>>
Some(n) == <<n>>

\* (r.base_priority or 0)
PriorityOrZero(p) == IF p = NoInt THEN 0 ELSE p[1]

\* variant of AccRow that scores default rows too
AccRow_CountDefault(scores, r) ==
    IF ~Truthy(r.item_name) THEN scores
    ELSE DictAdd(scores, r.item_name, PriorityOrZero(r.base_priority))

\* the body of acc's loop for one rule row
AccRow(scores, r) ==
    IF ~Truthy(r.item_name) THEN scores
    ELSE IF r.is_default THEN scores
    ELSE DictAdd(scores, r.item_name, PriorityOrZero(r.base_priority))

\* acc(rules): for r in rules
RECURSIVE acc(_, _)
acc(scores, rs) ==
    IF rs = <<>> THEN scores ELSE acc(AccRow(scores, Head(rs)), Tail(rs))

\* variant of SortedByScoreDesc that puts a candidate before the earlier
\* candidates of equal score
RECURSIVE SortedByScoreDesc_TiesReversed(_)
SortedByScoreDesc_TiesReversed(d) ==
    IF d = <<>> THEN <<>>
    ELSE LET n    == Len(d)
             x    == d[n]
             s    == SortedByScoreDesc_TiesReversed(SubSeq(d, 1, n - 1))
             keep == Cardinality({i \in 1..Len(s) : s[i].score > x.score})
         IN  SubSeq(s, 1, keep) \o <<x>> \o SubSeq(s, keep + 1, Len(s))

\* sorted(scores.items(), key=score, reverse=True): stable, so candidates of
\* equal score keep their insertion order
RECURSIVE SortedByScoreDesc(_)
SortedByScoreDesc(d) ==
    IF d = <<>> THEN <<>>
    ELSE LET n    == Len(d)
             x    == d[n]
             s    == SortedByScoreDesc(SubSeq(d, 1, n - 1))
             keep == Cardinality({i \in 1..Len(s) : s[i].score >= x.score})
         IN  SubSeq(s, 1, keep) \o <<x>> \o SubSeq(s, keep + 1, Len(s))

Names(cands) == [i \in 1..Len(cands) |-> cands[i].name]

\* top3 = [name for name, sc in candidates if sc >= TOP3_MIN_SCORE][:TOP3_LIMIT]
Top3(candidates) ==
    Limit(Names(SelectSeq(candidates, LAMBDA c : c.score >= TOP3_MIN_SCORE)),
          TOP3_LIMIT)

\* variant of ExtraLoop that admits every remaining candidate
ExtraLoop_NoGate(cands, top3, overlap, extra) ==
    LET rest == SelectSeq(Names(cands), LAMBDA n : n \notin Range(top3))
    IN  Limit(rest, EXTRA_MAX - Len(top3))

\* the loop that fills `extra`, from the candidates still to scan
RECURSIVE ExtraLoop(_, _, _, _)
ExtraLoop(cands, top3, overlap, extra) ==
    IF cands = <<>> THEN extra
    ELSE LET c == Head(cands)
         IN  IF c.name \in Range(top3)
             THEN ExtraLoop(Tail(cands), top3, overlap, extra)
             ELSE IF Len(top3) + Len(extra) >= EXTRA_MAX
             THEN extra
             ELSE IF c.name \in overlap \/ c.score >= EXTRA_MIN_SCORE
             THEN ExtraLoop(Tail(cands), top3, overlap, Append(extra, c.name))
             ELSE ExtraLoop(Tail(cands), top3, overlap, extra)

\* set([r.item_name for r in rs if r.item_name])
ItemSet(rs) == {rs[i].item_name : i \in {j \in 1..Len(rs) : Truthy(rs[j].item_name)}}

\* variant of get_activity_extra_recs that scores the next activity's rules
\* without looking at include_next
get_activity_extra_recs_AlwaysNext(current_act_type, shoe_type, next_act_type, include_next) ==
    LET cur_rules  == IF Truthy(current_act_type)
                      THEN _rules_for_act(current_act_type, shoe_type) ELSE <<>>
        nxt_rules  == IF Truthy(next_act_type)
                      THEN _rules_for_act(next_act_type, shoe_type) ELSE <<>>
        overlap    == IF include_next
                      THEN ItemSet(cur_rules) \cap ItemSet(nxt_rules) ELSE {}
        scores     == acc(acc(<<>>, cur_rules), nxt_rules)
        candidates == SortedByScoreDesc(scores)
        top3       == Top3(candidates)
        extra      == ExtraLoop(candidates, top3, overlap, <<>>)
    IN  [cur_rules |-> cur_rules, nxt_rules |-> nxt_rules, overlap |-> overlap,
         scores |-> scores, candidates |-> candidates, top3 |-> top3,
         extra |-> extra, items |-> top3 \o extra]

\* get_activity_extra_recs with its local variables; `items` is what it returns
get_activity_extra_recs(current_act_type, shoe_type, next_act_type, include_next) ==
    LET cur_rules  == IF Truthy(current_act_type)
                      THEN _rules_for_act(current_act_type, shoe_type) ELSE <<>>
        nxt_rules  == IF include_next /\ Truthy(next_act_type)
                      THEN _rules_for_act(next_act_type, shoe_type) ELSE <<>>
        overlap    == IF include_next
                      THEN ItemSet(cur_rules) \cap ItemSet(nxt_rules) ELSE {}
        scores     == acc(acc(<<>>, cur_rules), nxt_rules)
        candidates == SortedByScoreDesc(scores)
        top3       == Top3(candidates)
        extra      == ExtraLoop(candidates, top3, overlap, <<>>)
    IN  [cur_rules |-> cur_rules, nxt_rules |-> nxt_rules, overlap |-> overlap,
         scores |-> scores, candidates |-> candidates, top3 |-> top3,
         extra |-> extra, items |-> top3 \o extra]

----------------------------------------------------------------------------
\* infer_recommendations

\* Optional[Events] = None
NoEvent == [user_id |-> 0, user_name |-> None, act_type |-> None,
            location |-> None, start_time |-> 0 - 1, end_time |-> 0 - 1]

\* variant of IncludeNext that forgets to compare with the current shoe
IncludeNext_NoCurrentCheck(shoe_type, current_shoe, next_event) ==
    IF next_event # NoEvent /\ Truthy(next_event.act_type)
    THEN LET next_shoe == _get_main_shoe_for_act(next_event.act_type)
         IN  Truthy(next_shoe) /\ shoe_type = next_shoe
    ELSE FALSE

\* the include_next decision of infer_recommendations
IncludeNext(shoe_type, current_shoe, next_event) ==
    IF next_event # NoEvent /\ Truthy(next_event.act_type)
    THEN LET next_shoe == _get_main_shoe_for_act(next_event.act_type)
         IN  Truthy(next_shoe) /\ shoe_type = next_shoe /\ shoe_type # current_shoe
    ELSE FALSE

\* variant of ExposedNext that always hands back the second row
ExposedNext_Always(include_next, next_event) == next_event

\* what infer_recommendations hands back as next_event
ExposedNext(include_next, next_event) ==
    IF ~include_next THEN NoEvent ELSE next_event

\* infer_recommendations, given the rows `upcoming` its events query returned;
\* current_event, next_event and items are the returned tuple, the other
\* fields are local variables
infer_recommendations(user_id, shoe_type, current_time, upcoming) ==
    IF upcoming = <<>>
    THEN [current_event |-> NoEvent, next_event |-> NoEvent, items |-> <<>>,
          next_used |-> NoEvent, current_shoe |-> None, include_next |-> FALSE,
          overlap |-> {}, scores |-> <<>>]
    ELSE LET current_event == upcoming[1]
             next_event    == IF Len(upcoming) > 1 THEN upcoming[2] ELSE NoEvent
             current_shoe  == IF Truthy(current_event.act_type)
                              THEN _get_main_shoe_for_act(current_event.act_type)
                              ELSE None
             include_next  == IncludeNext(shoe_type, current_shoe, next_event)
             recs == get_activity_extra_recs(
                         current_event.act_type, shoe_type,
                         IF next_event # NoEvent THEN next_event.act_type ELSE None,
                         include_next)
         IN  [current_event |-> current_event,
              next_event |-> ExposedNext(include_next, next_event),
              items |-> recs.items,
              next_used |-> next_event, current_shoe |-> current_shoe,
              include_next |-> include_next,
              overlap |-> recs.overlap, scores |-> recs.scores]

----------------------------------------------------------------------------
\* get_friend_carry_recs_from_events

\* variant of _time_overlap that counts events that touch as overlapping
_time_overlap_Touching(a_start, a_end, b_start, b_end) ==
    ~(a_end < b_start \/ b_end < a_start)

\* _time_overlap
_time_overlap(a_start, a_end, b_start, b_end) ==
    ~(a_end <= b_start \/ b_end <= a_start)

\* _get_friend_carry_items
_get_friend_carry_items(user_id) ==
    SelectSeq(friends, LAMBDA r : r.user_id = user_id)

\* carry_map = {r.friend_name: r.carry_item for r in rules}; carry_map.get(name):
\* a later rule of the same friend_name replaces an earlier one
CarryMapGet(rs, name) ==
    LET hits == {i \in 1..Len(rs) : rs[i].friend_name = name}
    IN  IF hits = {} THEN None
        ELSE rs[CHOOSE i \in hits : \A j \in hits : j <= i].carry_item

\* "dedupe keep order"
RECURSIVE Dedupe(_)
Dedupe(s) ==
    IF s = <<>> THEN <<>>
    ELSE LET d == Dedupe(SubSeq(s, 1, Len(s) - 1))
             x == s[Len(s)]
         IN  IF x \in Range(d) THEN d ELSE Append(d, x)

\* filter(Events.user_name.in_(friend_names), Events.start_time >= current_time)
FriendEventsOf(rs, current_time) ==
    {e \in events : e.user_name \in {rs[i].friend_name : i \in 1..Len(rs)}
                    /\ e.start_time >= current_time}

\* the test of the inner loop body: does the pair (de, fe) yield an item
PairMeets(de, fe) ==
    /\ Truthy(de.location) /\ Truthy(fe.location)
    /\ de.location = fe.location
    /\ _time_overlap(de.start_time, de.end_time, fe.start_time, fe.end_time)

\* for de in demo_events: for fe in friend_events: ... out.append(item)
FriendLoop(rs, demo_events, friend_events) ==
    LET n     == Len(demo_events)
        m     == Len(friend_events)
        pairs == [k \in 1..(n * m) |->
                     [de |-> demo_events[((k - 1) \div m) + 1],
                      fe |-> friend_events[((k - 1) % m) + 1]]]
        hits  == SelectSeq(pairs, LAMBDA p :
                     PairMeets(p.de, p.fe)
                     /\ Truthy(CarryMapGet(rs, p.fe.user_name)))
    IN  [k \in 1..Len(hits) |-> CarryMapGet(rs, hits[k].fe.user_name)]

\* get_friend_carry_recs_from_events, given the rows its two events queries
\* returned
get_friend_carry_recs_from_events(demo_user_id, demo_events, friend_events) ==
    LET rs == _get_friend_carry_items(demo_user_id)
    IN  IF rs = <<>> THEN <<>>
        ELSE Dedupe(FriendLoop(rs, demo_events, friend_events))

----------------------------------------------------------------------------
\* build_mcu_all_items

\* variant of get_common_items_by_shoe_id that forgets the shoe_id filter
get_common_items_by_shoe_id_AnyShoe(shoe_id) ==
    LET rows == shoe_items
    IN  IF rows = <<>>
        THEN [shoe_id |-> shoe_id, shoe_type |-> None, items |-> <<>>]
        ELSE [shoe_id |-> shoe_id, shoe_type |-> rows[1].shoe_type,
              items |-> [i \in 1..Len(rows) |-> rows[i].item_name]]

\* get_common_items_by_shoe_id
get_common_items_by_shoe_id(shoe_id) ==
    LET rows == SelectSeq(shoe_items, LAMBDA r : r.shoe_id = shoe_id)
    IN  IF rows = <<>>
        THEN [shoe_id |-> shoe_id, shoe_type |-> None, items |-> <<>>]
        ELSE [shoe_id |-> shoe_id, shoe_type |-> rows[1].shoe_type,
              items |-> [i \in 1..Len(rows) |-> rows[i].item_name]]

\* SELECT shoe_type FROM user_shoes WHERE id = :sid AND user_id = :uid
ShoeRows(user_id, shoe_id) ==
    {r \in user_shoes : r.id = shoe_id /\ r.user_id = user_id}

\* for x in xs: if x not in acc: acc.append(x)
RECURSIVE AppendNew(_, _)
AppendNew(acc0, xs) ==
    IF xs = <<>> THEN acc0
    ELSE AppendNew(IF Head(xs) \in Range(acc0) THEN acc0 ELSE Append(acc0, Head(xs)),
                   Tail(xs))

\* variant of RecUnique that appends the friend items unchecked
RecUnique_AppendAll(rec_items, friend_recs) ==
    AppendNew(<<>>, rec_items) \o friend_recs

\* steps 4 and 5 of build_mcu_all_items: rec_unique
RecUnique(rec_items, friend_recs) ==
    AppendNew(AppendNew(<<>>, rec_items), friend_recs)

\* variant of McuResult that fills common_items from the shoe's rows
McuResult_ShoeRowsAsCommon(user_id, shoe_id, shoe_type, rec_items, friend_recs) ==
    [user_id |-> user_id, shoe_id |-> shoe_id, shoe_type |-> shoe_type,
     common_items |-> get_common_items_by_shoe_id(shoe_id).items,
     common_items_by_shoe |-> get_common_items_by_shoe_id(shoe_id).items,
     recommendations |-> RecUnique(rec_items, friend_recs)]

\* the dict build_mcu_all_items returns
McuResult(user_id, shoe_id, shoe_type, rec_items, friend_recs) ==
    [user_id |-> user_id, shoe_id |-> shoe_id, shoe_type |-> shoe_type,
     common_items |-> COMMON_ITEMS,
     common_items_by_shoe |-> get_common_items_by_shoe_id(shoe_id).items,
     recommendations |-> RecUnique(rec_items, friend_recs)]

----------------------------------------------------------------------------
\* The calls.  `call` records the call, `ret` the returned value, `loc` the
\* callee's local variables.

NoCall == [op |-> "none", user_id |-> 0, shoe_type |-> None, shoe_id |-> 0,
           current_time |-> NoInt]

NoRet == [status |-> 0, error |-> None, current_event |-> NoEvent, next_event |-> NoEvent,
          items |-> <<>>, shoe_type |-> None, common_items |-> <<>>,
          common_items_by_shoe |-> <<>>, recommendations |-> <<>>]

NoLoc == [now |-> 0 - 1, friend_now |-> 0 - 1, next_used |-> NoEvent,
          current_shoe |-> None, include_next |-> FALSE, overlap |-> {},
          scores |-> <<>>, rec_items |-> <<>>, friend_recs |-> <<>>]

\* datetime.utcnow() when current_time is None
Now(current_time) == IF current_time = NoInt THEN Times ELSE {current_time[1]}

\* the rows the .limit(2) query of infer_recommendations can return
UpcomingRows(user_id, now) ==
    {Limit(s, 2) : s \in OrderByStart(UpcomingOf(user_id, now))}

\* No call is in progress: the engine is synchronous, one call at a time
Idle == call.op = "none"

\* the call returns to its caller; nothing of it is kept (the engine is
\* stateless and writes to no table)
Return ==
    /\ ~Idle
    /\ call' = NoCall /\ ret' = NoRet /\ loc' = NoLoc
    /\ UNCHANGED <<users, events, rules, friends, user_shoes, shoe_items>>

\* crud.infer_recommendations(db, user_id, shoe_type, current_time)
InferRecommendations(user_id, shoe_type, current_time) ==
    /\ Idle
    /\ \E now \in Now(current_time) :
       \E upcoming \in UpcomingRows(user_id, now) :
           LET r == infer_recommendations(user_id, shoe_type, now, upcoming)
           IN  /\ call' = [NoCall EXCEPT !.op = "infer_recommendations",
                               !.user_id = user_id, !.shoe_type = shoe_type,
                               !.current_time = current_time]
               /\ ret' = [NoRet EXCEPT !.current_event = r.current_event,
                               !.next_event = r.next_event, !.items = r.items]
               /\ loc' = [NoLoc EXCEPT !.now = now, !.next_used = r.next_used,
                               !.current_shoe = r.current_shoe,
                               !.include_next = r.include_next,
                               !.overlap = r.overlap, !.scores = r.scores,
                               !.rec_items = r.items]
               /\ UNCHANGED <<users, events, rules, friends, user_shoes, shoe_items>>

\* crud.build_mcu_all_items(db, user_id, shoe_id, current_time): raises
\* ValueError("Shoe not found") when the shoe is not a shoe of the user.
\* With current_time None, infer_recommendations and step 5 each read the
\* clock, the second reading not before the first.
BuildMcuAllItems(user_id, shoe_id, current_time) ==
    /\ Idle
    /\ IF ShoeRows(user_id, shoe_id) = {}
       THEN /\ call' = [NoCall EXCEPT !.op = "build_mcu_all_items",
                            !.user_id = user_id, !.shoe_id = shoe_id,
                            !.current_time = current_time]
            /\ ret' = [NoRet EXCEPT !.error = "Shoe not found"]
            /\ loc' = NoLoc
            /\ UNCHANGED <<users, events, rules, friends, user_shoes, shoe_items>>
       ELSE \E row \in ShoeRows(user_id, shoe_id) :
            \E now \in Now(current_time) :
            \E friend_now \in {t \in Now(current_time) : t >= now} :
            \E upcoming \in UpcomingRows(user_id, now) :
            \E demo_events \in OrderByStart(UpcomingOf(user_id, friend_now)) :
            \E friend_events \in OrderByStart(
                    FriendEventsOf(_get_friend_carry_items(user_id), friend_now)) :
               LET r   == infer_recommendations(user_id, row.shoe_type, now, upcoming)
                   out == get_friend_carry_recs_from_events(user_id, demo_events,
                                                            friend_events)
                   res == McuResult(user_id, shoe_id, row.shoe_type, r.items, out)
               IN  /\ call' = [NoCall EXCEPT !.op = "build_mcu_all_items",
                                   !.user_id = user_id, !.shoe_id = shoe_id,
                                   !.current_time = current_time]
                   /\ ret' = [NoRet EXCEPT !.shoe_type = res.shoe_type,
                                   !.common_items = res.common_items,
                                   !.common_items_by_shoe = res.common_items_by_shoe,
                                   !.recommendations = res.recommendations]
                   /\ loc' = [NoLoc EXCEPT !.now = now, !.friend_now = friend_now,
                                   !.next_used = r.next_used,
                                   !.current_shoe = r.current_shoe,
                                   !.include_next = r.include_next,
                                   !.overlap = r.overlap, !.scores = r.scores,
                                   !.rec_items = r.items, !.friend_recs = out]
                   /\ UNCHANGED <<users, events, rules, friends, user_shoes, shoe_items>>

----------------------------------------------------------------------------
\* Request handlers (app/main.py)

\* variant of get_user that forgets the user_id filter
get_user_AnyUser(user_id) == users

\* crud.get_user: the rows .first() chooses from
get_user(user_id) == {u \in users : u.user_id = user_id}

\* GET /recommendations/: HTTPException(404, "User not found") when the user
\* has no record, otherwise the tuple of infer_recommendations
GetRecommendations(user_id, shoe_type, current_time) ==
    /\ Idle
    /\ call' = [NoCall EXCEPT !.op = "get_recommendations",
                    !.user_id = user_id, !.shoe_type = shoe_type,
                    !.current_time = current_time]
    /\ IF get_user(user_id) = {}
       THEN /\ ret' = [NoRet EXCEPT !.status = 404, !.error = "User not found"]
            /\ loc' = NoLoc
       ELSE \E now \in Now(current_time) :
            \E upcoming \in UpcomingRows(user_id, now) :
               LET r == infer_recommendations(user_id, shoe_type, now, upcoming)
               IN  /\ ret' = [NoRet EXCEPT !.current_event = r.current_event,
                                   !.next_event = r.next_event, !.items = r.items]
                   /\ loc' = [NoLoc EXCEPT !.now = now, !.next_used = r.next_used,
                                   !.current_shoe = r.current_shoe,
                                   !.include_next = r.include_next,
                                   !.overlap = r.overlap, !.scores = r.scores,
                                   !.rec_items = r.items]
    /\ UNCHANGED <<users, events, rules, friends, user_shoes, shoe_items>>

\* POST /detect_shoe/: HTTPException(404, "Shoe not found for this user")
\* when the shoe is not a shoe of the user, otherwise infer_recommendations
\* for the shoe's type at the current clock reading
DetectShoe(user_id, shoe_id) ==
    /\ Idle
    /\ call' = [NoCall EXCEPT !.op = "detect_shoe",
                    !.user_id = user_id, !.shoe_id = shoe_id]
    /\ IF ShoeRows(user_id, shoe_id) = {}
       THEN /\ ret' = [NoRet EXCEPT !.status = 404,
                            !.error = "Shoe not found for this user"]
            /\ loc' = NoLoc
       ELSE \E shoe \in ShoeRows(user_id, shoe_id) :
            \E now \in Now(NoInt) :
            \E upcoming \in UpcomingRows(user_id, now) :
               LET r == infer_recommendations(user_id, shoe.shoe_type, now, upcoming)
               IN  /\ ret' = [NoRet EXCEPT !.shoe_type = shoe.shoe_type,
                                   !.current_event = r.current_event,
                                   !.next_event = r.next_event, !.items = r.items]
                   /\ loc' = [NoLoc EXCEPT !.now = now, !.next_used = r.next_used,
                                   !.current_shoe = r.current_shoe,
                                   !.include_next = r.include_next,
                                   !.overlap = r.overlap, !.scores = r.scores,
                                   !.rec_items = r.items]
    /\ UNCHANGED <<users, events, rules, friends, user_shoes, shoe_items>>

----------------------------------------------------------------------------
\* Table contents and arguments of the model

Ev(uid, act, place, s, e) ==
    [user_id |-> uid, user_name |-> NameOf(uid), act_type |-> act,
     location |-> place, start_time |-> s, end_time |-> e]

Rule(act, item, prio, shoe, dflt) ==
    [act_type |-> act, item_name |-> item, base_priority |-> prio,
     shoe_type |-> shoe, is_default |-> dflt]

Carry(uid, friend, item) ==
    [user_id |-> uid, friend_name |-> friend, carry_item |-> item]

\* users: amy, bob and cat
UsersTable == {[user_id |-> u, user_name |-> NameOf(u)] : u \in {1, 2, 3}}

\* shoe_type arguments: two shoe types and the empty string
WornShoes == {"sneaker", "formal", ""}

\* user_shoes: shoes 1 and 2 belong to user 1, shoe 3 to user 2
UserShoesTable ==
    {[id |-> 1, user_id |-> 1, shoe_type |-> "sneaker"],
     [id |-> 2, user_id |-> 1, shoe_type |-> "formal"],
     [id |-> 3, user_id |-> 2, shoe_type |-> "sneaker"]}
ShoeIds == {r.id : r \in UserShoesTable}

\* common_items_by_shoe: two rows for shoe 1, none for the other shoes
ShoeItemTable ==
    <<[shoe_id |-> 1, shoe_type |-> "sneaker", item_name |-> "socks"],
      [shoe_id |-> 1, shoe_type |-> "sneaker", item_name |-> "towel"]>>

TimeArgs == {NoInt} \cup {Some(t) : t \in Times}

\* Schedules: user 1 with any activity at any time, user 2 beside it
ScheduleEvents ==
    {Ev(1, a, None, t, t + 1) : a \in {None, "class", "meet"}, t \in Times}
    \cup {Ev(2, "class", None, t, t + 1) : t \in Times}

\* class is done in sneakers, meet in formal shoes
TextbookRules ==
    <<Rule("class", "laptop", Some(7), "sneaker", FALSE),
      Rule("meet", "badge", Some(7), "formal", FALSE)>>

InitSchedule ==
    /\ users = UsersTable
    /\ events \in SubsetsUpTo(ScheduleEvents, MaxEvents)
    /\ rules = TextbookRules
    /\ friends = <<>>
    /\ user_shoes = UserShoesTable
    /\ shoe_items = ShoeItemTable
    /\ call = NoCall /\ ret = NoRet /\ loc = NoLoc

\* Rule tables: rows of two activities with any shoe type, and default rows
\* without a shoe type or with the activity's usual one
ContinuationRows ==
    {Rule(a, "laptop", Some(7), sh, FALSE) :
        a \in {"class", "meet"}, sh \in {None} \cup WornShoes}
    \cup {Rule(a, "laptop", Some(7), None, TRUE) : a \in {"class", "meet"}}
    \cup {Rule("class", "laptop", Some(7), "sneaker", TRUE),
          Rule("meet", "laptop", Some(7), "formal", TRUE)}

\* the schedules the rule tables are tried on
ContinuationSchedules ==
    {{Ev(1, "class", None, 0, 1), Ev(1, "meet", None, 1, 2)},
     {Ev(1, None, None, 0, 1), Ev(1, "meet", None, 1, 2)}}

InitContinuation ==
    /\ users = UsersTable
    /\ events \in ContinuationSchedules
    /\ rules \in SeqUpTo(ContinuationRows, MaxRules)
    /\ friends = <<>>
    /\ user_shoes = UserShoesTable
    /\ shoe_items = ShoeItemTable
    /\ call = NoCall /\ ret = NoRet /\ loc = NoLoc

Init == InitSchedule \/ InitContinuation

Next ==
    \/ \E user_id \in UserIds, shoe_type \in WornShoes, current_time \in TimeArgs :
           InferRecommendations(user_id, shoe_type, current_time)
    \/ Return

Spec == Init /\ [][Next]_vars

----------------------------------------------------------------------------
\* Rule tables for the scoring and the ranking of the extras; the schedule is
\* a class followed by a meeting

ClassThenMeet == {Ev(1, "class", None, 0, 1), Ev(1, "meet", None, 1, 2)}

ItemNames ==
    <<"laptop", "charger", "umbrella", "badge", "pen", "mask", "gum", "book">>

\* a candidate of the ranking family: its priority under class, and whether
\* a meet rule names it too (then it is in the overlap)
RankKinds ==
    {[p |-> 6, both |-> FALSE], [p |-> 6, both |-> TRUE],
     [p |-> 7, both |-> FALSE], [p |-> 8, both |-> FALSE]}

\* one class rule per candidate, then the meet rules (formal shoes, no
\* priority) of the candidates that have one
RankingRules(f) ==
    LET k   == Len(f)
        cur == [i \in 1..k |-> Rule("class", ItemNames[i], Some(f[i].p), None, FALSE)]
        nxt == [i \in 1..k |-> Rule("meet", ItemNames[i], NoInt, "formal", FALSE)]
    IN  cur \o SelectSeq(nxt, LAMBDA r :
                   \E i \in 1..k : f[i].both /\ ItemNames[i] = r.item_name)

InitRanking ==
    /\ users = UsersTable
    /\ events = ClassThenMeet
    /\ rules \in {RankingRules(f) : f \in SeqUpTo(RankKinds, MaxCand)}
    /\ friends = <<>>
    /\ user_shoes = UserShoesTable
    /\ shoe_items = ShoeItemTable
    /\ call = NoCall /\ ret = NoRet /\ loc = NoLoc

\* rows of the scoring family: two activities, two items, any shoe type, a
\* row without priority and two rows flagged default
ScoringRows ==
    {Rule(a, it, Some(4), sh, FALSE) :
        a \in {"class", "meet"}, it \in {"laptop", "badge"},
        sh \in {None, "sneaker", "formal"}}
    \cup {Rule("class", "laptop", NoInt, None, FALSE),
          Rule("class", "laptop", Some(4), None, TRUE),
          Rule("meet", "laptop", Some(4), "formal", TRUE)}

InitScoring ==
    /\ users = UsersTable
    /\ events = ClassThenMeet
    /\ rules \in SeqUpTo(ScoringRows, MaxScoreRules)
    /\ friends = <<>>
    /\ user_shoes = UserShoesTable
    /\ shoe_items = ShoeItemTable
    /\ call = NoCall /\ ret = NoRet /\ loc = NoLoc

\* rows of the tie family: class rows of two items, flagged default or not,
\* and meet rows for formal shoes, all of priority 7
TieRows ==
    {Rule("class", it, Some(7), None, d) :
        it \in {"laptop", "badge"}, d \in BOOLEAN}
    \cup {Rule("meet", it, Some(7), "formal", FALSE) : it \in {"laptop", "badge"}}

InitTies ==
    /\ users = UsersTable
    /\ events = ClassThenMeet
    /\ rules \in SeqUpTo(TieRows, MaxScoreRules)
    /\ friends = <<>>
    /\ user_shoes = UserShoesTable
    /\ shoe_items = ShoeItemTable
    /\ call = NoCall /\ ret = NoRet /\ loc = NoLoc

InitExtras == InitRanking \/ InitScoring \/ InitTies

NextExtras ==
    \/ \E shoe_type \in {"sneaker", "formal"} :
           InferRecommendations(1, shoe_type, Some(0))
    \/ Return

SpecExtras == InitExtras /\ [][NextExtras]_vars

----------------------------------------------------------------------------
\* Encounters: user 1 (amy) and the counterparts bob and cat

\* amy's classes and the counterparts' events, at the Library, elsewhere or
\* nowhere, over the slots 0-1, 1-2 and 0-2
EncounterEvents ==
    {Ev(1, "class", "Library", 0, 1), Ev(1, "class", "Library", 1, 2),
     Ev(1, "class", "Library", 0, 2), Ev(1, "class", None, 0, 2),
     Ev(2, "meet", "Library", 0, 1), Ev(2, "meet", "Library", 1, 2),
     Ev(2, "meet", "Library", 0, 2), Ev(2, "meet", "Gym", 0, 2),
     Ev(2, "meet", None, 0, 2), Ev(3, "meet", "Library", 0, 2)}

FriendTables ==
    {<<>>,
     <<Carry(1, "bob", "umbrella")>>,
     <<Carry(1, "bob", "laptop")>>,
     <<Carry(1, "bob", "umbrella"), Carry(1, "bob", "gift")>>,
     <<Carry(1, "bob", "umbrella"), Carry(1, "cat", "umbrella")>>}

\* laptop is named by two class rows and by a meet row
RepeatedRules ==
    <<Rule("class", "laptop", Some(4), None, FALSE),
      Rule("class", "badge", Some(7), None, FALSE),
      Rule("class", "laptop", Some(4), "sneaker", FALSE),
      Rule("meet", "laptop", Some(7), "formal", FALSE)>>

InitEncounter ==
    /\ users = UsersTable
    /\ events \in SubsetsUpTo(EncounterEvents, MaxMeetings)
    /\ rules \in {TextbookRules, RepeatedRules}
    /\ friends \in FriendTables
    /\ user_shoes = UserShoesTable
    /\ shoe_items = ShoeItemTable
    /\ call = NoCall /\ ret = NoRet /\ loc = NoLoc

NextEncounter ==
    \/ \E user_id \in UserIds, shoe_id \in ShoeIds, current_time \in TimeArgs :
           BuildMcuAllItems(user_id, shoe_id, current_time)
    \/ Return

SpecEncounter == InitEncounter /\ [][NextEncounter]_vars

----------------------------------------------------------------------------
\* Requests: the handlers and build_mcu_all_items, for users with and
\* without a record and shoes of their own and of others

\* largest number of rows of the events table in the request family
MaxRequestEvents == 2

\* the rule table with the class row and without it
RequestRules == {TextbookRules, SubSeq(TextbookRules, 2, 2)}

\* events.user_id and user_shoes.user_id refer to users.user_id, so only
\* users with a record have events and shoes
InitRequests ==
    /\ users \in {UsersTable, {u \in UsersTable : u.user_id # 2}}
    /\ events \in {S \in SubsetsUpTo(ScheduleEvents, MaxRequestEvents) :
                      \A e \in S : \E u \in users : u.user_id = e.user_id}
    /\ rules \in RequestRules
    /\ friends = <<>>
    /\ user_shoes = {r \in UserShoesTable :
                         \E u \in users : u.user_id = r.user_id}
    /\ shoe_items = ShoeItemTable
    /\ call = NoCall /\ ret = NoRet /\ loc = NoLoc

NextRequests ==
    \/ \E user_id \in UserIds, shoe_type \in WornShoes, current_time \in TimeArgs :
           GetRecommendations(user_id, shoe_type, current_time)
    \/ \E user_id \in UserIds, shoe_id \in ShoeIds :
           DetectShoe(user_id, shoe_id)
    \/ \E user_id \in UserIds, shoe_id \in ShoeIds, current_time \in TimeArgs :
           BuildMcuAllItems(user_id, shoe_id, current_time)
    \/ Return

SpecRequests == InitRequests /\ [][NextRequests]_vars

----------------------------------------------------------------------------
\* Properties of infer_recommendations

InferDone == call.op = "infer_recommendations"

\* the events of the asking user that start at or after the reference time
OwnUpcoming ==
    {e \in events : e.user_id = call.user_id /\ e.start_time >= loc.now}

\* e is an event of S with the least start_time
Earliest(e, S) == e \in S /\ \A x \in S : e.start_time <= x.start_time

\* the default shoe of an activity: the shoe_type of the first row, in row
\* order, of that activity with a non-null shoe_type; None without one
ShoeRowsOf(act) ==
    {i \in 1..Len(rules) : rules[i].act_type = act /\ rules[i].shoe_type # None}
DefaultShoe(act) ==
    IF act = None \/ ShoeRowsOf(act) = {} THEN None
    ELSE rules[CHOOSE i \in ShoeRowsOf(act) : \A j \in ShoeRowsOf(act) : i <= j].shoe_type

\* C1: when include_next is false the returned next_event is none, also when
\* the user has a second upcoming event; when include_next is true the
\* returned next_event is the second-earliest upcoming event of the user
C1_NextExposedIffIncluded ==
    InferDone =>
        /\ ~loc.include_next => ret.next_event = NoEvent
        /\ loc.include_next =>
               /\ ret.next_event # ret.current_event
               /\ Earliest(ret.current_event, OwnUpcoming)
               /\ Earliest(ret.next_event, OwnUpcoming \ {ret.current_event})

\* C1 witness: a second upcoming event exists, include_next is false and the
\* caller is given no next_event
C1_Witness ==
    /\ InferDone /\ ~loc.include_next
    /\ Cardinality(OwnUpcoming) >= 2
    /\ loc.next_used # NoEvent /\ ret.next_event = NoEvent

\* the four conditions of the continuation policy, (b) read as "non-null"
CondA == loc.next_used # NoEvent /\ loc.next_used.act_type # None
CondB_NonNull == DefaultShoe(loc.next_used.act_type) # None
CondB_Known == Truthy(DefaultShoe(loc.next_used.act_type))
CondC == call.shoe_type = DefaultShoe(loc.next_used.act_type)
CondD == call.shoe_type # DefaultShoe(ret.current_event.act_type)

\* C2 as stated: include_next is true iff (a) a next event exists and has an
\* activity type, (b) its default shoe is non-null, (c) the worn shoe equals
\* it, (d) the worn shoe differs from the current event's default shoe
C2_AsStated ==
    (InferDone /\ ret.current_event # NoEvent) =>
        (loc.include_next <=> (CondA /\ CondB_NonNull /\ CondC /\ CondD))

\* C2 amended: the same with (b) "the default shoe is non-null and not the
\* empty string"
C2_IncludeNextIff ==
    (InferDone /\ ret.current_event # NoEvent) =>
        (loc.include_next <=> (CondA /\ CondB_Known /\ CondC /\ CondD))

\* C2 witness: the continuation case, the worn shoe is the next event's
\* default shoe and not the current event's, whose default shoe is known
C2_Witness ==
    /\ InferDone /\ loc.include_next
    /\ DefaultShoe(ret.current_event.act_type) # None
    /\ ret.next_event = loc.next_used

\* C3: the current event is an event of the user starting at or after the
\* reference time with the least start_time, the event used as next is the
\* next-earliest such event, none when there are fewer than two
C3_EventSelection ==
    (InferDone /\ OwnUpcoming # {}) =>
        /\ ret.current_event \in events
        /\ ret.current_event.user_id = call.user_id
        /\ ret.current_event.start_time >= loc.now
        /\ Earliest(ret.current_event, OwnUpcoming)
        /\ Cardinality(OwnUpcoming) < 2 => loc.next_used = NoEvent
        /\ Cardinality(OwnUpcoming) >= 2 =>
               /\ loc.next_used.user_id = call.user_id
               /\ loc.next_used.start_time >= loc.now
               /\ Earliest(loc.next_used, OwnUpcoming \ {ret.current_event})

\* C3 witness: the table also holds an event of another user and an event
\* of the user before the reference time, both earlier than the current
\* event, and a next event is found
C3_Witness ==
    /\ InferDone /\ loc.next_used # NoEvent
    /\ \E e \in events : e.user_id # call.user_id
                          /\ e.start_time < ret.current_event.start_time
    /\ \E e \in events : e.user_id = call.user_id /\ e.start_time < loc.now

\* C4: for a user with no event at or after the reference time the result is
\* (none, none, []), whatever the rules and the worn shoe
C4_EmptySchedule ==
    (InferDone /\ OwnUpcoming = {}) =>
        /\ ret.current_event = NoEvent
        /\ ret.next_event = NoEvent
        /\ ret.items = <<>>

\* C4 witness: the user has events, all before the reference time, and the
\* rule table is not empty
C4_Witness ==
    /\ InferDone /\ OwnUpcoming = {}
    /\ \E e \in events : e.user_id = call.user_id
    /\ rules # <<>>
    /\ ret.current_event = NoEvent /\ ret.items = <<>>

\* the activities that are scored: the current event's and, with
\* include_next, the next event's
ActsConsidered ==
    ({ret.current_event.act_type}
        \cup (IF loc.include_next THEN {loc.next_used.act_type} ELSE {}))
    \ {None}

\* row i is a row of a scored activity that names an item and whose
\* shoe_type is null or the worn shoe
RowConsidered(i) ==
    /\ rules[i].act_type \in ActsConsidered
    /\ rules[i].shoe_type \in {None, call.shoe_type}
    /\ Truthy(rules[i].item_name)

----------------------------------------------------------------------------
\* Properties of get_activity_extra_recs (the items of infer_recommendations)

Extras == ret.items
CandNames == {loc.scores[i].name : i \in 1..Len(loc.scores)}
ScoreOf(n) == DictGet(loc.scores, n)

\* a candidate that may be returned: its score is at the gate or it is in
\* the overlap
AtGate(n) == ScoreOf(n) >= 7
Admissible(n) == n \in loc.overlap \/ AtGate(n)

\* number of primary extras: the candidates at the gate, three at most
NPrimary ==
    LET g == Cardinality({n \in CandNames : AtGate(n)})
    IN  IF g < 3 THEN g ELSE 3

\* C6: the result is first the (at most 3) highest-scoring candidates with
\* score >= 7, then, in descending score order, the remaining candidates
\* that are in the overlap or have score >= 7, until there are 5; it has at
\* most 5 items and never a candidate below 7 that is not in the overlap
C6_TopThreeThenGatedExtras ==
    (InferDone /\ ret.current_event # NoEvent) =>
        /\ Len(Extras) <= 5
        /\ Len(Extras) >= NPrimary
        /\ \A i \in 1..Len(Extras) :
               Extras[i] \in CandNames /\ Admissible(Extras[i])
        /\ \A i \in 1..NPrimary :
               /\ AtGate(Extras[i])
               /\ \A n \in CandNames \ {Extras[j] : j \in 1..NPrimary} :
                      ScoreOf(n) <= ScoreOf(Extras[i])
        /\ \A i \in 1..(Len(Extras) - 1) :
               ScoreOf(Extras[i]) >= ScoreOf(Extras[i + 1])
        /\ \A n \in CandNames \ Range(Extras) :
               Admissible(n) =>
                  /\ Len(Extras) = 5
                  /\ \A i \in (NPrimary + 1)..5 : ScoreOf(n) <= ScoreOf(Extras[i])

\* C6 witness: five items are returned, one of them below the gate and
\* admitted by the overlap, and a candidate that could be admitted is left out
C6_Witness ==
    /\ InferDone /\ Len(Extras) = 5 /\ NPrimary = 3
    /\ \E i \in 4..5 : ~AtGate(Extras[i]) /\ Extras[i] \in loc.overlap
    /\ \E n \in CandNames \ Range(Extras) : Admissible(n)

\* row i counts for the score: a row of a scored activity, with a null or
\* the worn shoe_type, not flagged default
RowScored(i) == RowConsidered(i) /\ ~rules[i].is_default

\* sum of base_priority (null as 0) over the rows 1..k that count and name n
RECURSIVE PrioritySum(_, _)
PrioritySum(n, k) ==
    IF k = 0 THEN 0
    ELSE PrioritySum(n, k - 1)
         + (IF RowScored(k) /\ rules[k].item_name = n
               /\ rules[k].base_priority # NoInt
            THEN rules[k].base_priority[1] ELSE 0)

\* C7: the score of an item is the sum of base_priority (null as 0) over
\* exactly the rows of the scored activities whose shoe_type is null or the
\* worn shoe and that are not flagged default
C7_ScoreIsSumOfEligibleRows ==
    (InferDone /\ ret.current_event # NoEvent) =>
        /\ CandNames = {rules[i].item_name : i \in {j \in 1..Len(rules) : RowScored(j)}}
        /\ \A n \in CandNames : ScoreOf(n) = PrioritySum(n, Len(rules))

\* C7 witness: an item scored from two rows, one of the current and one of
\* the next activity, while a row of another shoe type and a row flagged
\* default, of scored activities, add nothing
C7_Witness ==
    /\ InferDone /\ loc.include_next
    /\ \E i, j \in 1..Len(rules) :
           /\ RowScored(i) /\ RowScored(j)
           /\ rules[i].act_type # rules[j].act_type
           /\ rules[i].item_name = rules[j].item_name
           /\ ScoreOf(rules[i].item_name) = 8
    /\ \E i \in 1..Len(rules) :
           /\ rules[i].act_type \in ActsConsidered
           /\ (rules[i].is_default \/ rules[i].shoe_type \notin {None, call.shoe_type})

----------------------------------------------------------------------------
\* Properties of build_mcu_all_items and of the encounter items

McuDone == call.op = "build_mcu_all_items" /\ ret.error = None

NoDuplicates(s) == \A i, j \in 1..Len(s) : s[i] = s[j] => i = j

\* the pairs (event of the asking user starting at or after the time t,
\* event of the counterpart `friend`) that overlap in time at an equal,
\* non-empty location
Meetings(friend, t) ==
    {p \in events \X events :
        /\ p[1].user_id = call.user_id /\ p[1].start_time >= t
        /\ p[2].user_name = friend
        /\ p[1].location = p[2].location
        /\ p[1].location # None /\ p[1].location # ""
        /\ p[1].start_time < p[2].end_time /\ p[2].start_time < p[1].end_time}

OwnCarryRules == {i \in 1..Len(friends) : friends[i].user_id = call.user_id}

\* C5: no item name occurs twice in the items returned by
\* infer_recommendations nor in the recommendations of build_mcu_all_items,
\* also when several pairs or counterparts yield the same encounter item or
\* an encounter item is already recommended
C5_NoDuplicateItems ==
    /\ NoDuplicates(ret.items)
    /\ NoDuplicates(loc.rec_items)
    /\ NoDuplicates(loc.friend_recs)
    /\ NoDuplicates(ret.recommendations)

\* C5 witness: an encounter item that the rules recommend already and that
\* two overlapping pairs of events yield
C5_Witness ==
    /\ McuDone
    /\ \E x \in Range(loc.friend_recs) :
           /\ x \in Range(loc.rec_items)
           /\ \E i \in OwnCarryRules :
                  /\ friends[i].carry_item = x
                  /\ Cardinality(Meetings(friends[i].friend_name, loc.friend_now)) >= 2

C10_EveryEncounterYieldsItem ==
    McuDone =>
        \A i \in OwnCarryRules :
            Meetings(friends[i].friend_name, loc.friend_now) # {}
                => /\ friends[i].carry_item \in Range(loc.friend_recs)
                   /\ friends[i].carry_item \in Range(ret.recommendations)

----------------------------------------------------------------------------
\* Properties of the requests

\* the asking user has a record
HasRecord == \E u \in users : u.user_id = call.user_id

\* the shoe of the request is a shoe of the asking user
OwnsShoe ==
    \E r \in user_shoes : r.id = call.shoe_id /\ r.user_id = call.user_id

\* nothing is recommended and neither the clock nor a table of events or
\* rules was read
NothingRecommended ==
    /\ ret.current_event = NoEvent /\ ret.next_event = NoEvent
    /\ ret.items = <<>> /\ ret.recommendations = <<>>
    /\ ret.common_items = <<>> /\ ret.common_items_by_shoe = <<>>
    /\ loc = NoLoc

\* C11: a request whose identity resolution fails ends in a not-found error
\* and recommends nothing: /recommendations for a user without a record
\* raises 404 "User not found" before infer_recommendations runs, detect_shoe
\* and build_mcu_all_items for a shoe that is not a shoe of the user raise
\* "Shoe not found ..." before any event or rule is looked up; a request
\* whose identity resolves raises nothing
C11_IdentityFailureIsNotFound ==
    /\ call.op = "get_recommendations" =>
           IF HasRecord THEN ret.error = None /\ loc.now \in Times
           ELSE /\ ret.status = 404 /\ ret.error = "User not found"
                /\ NothingRecommended
    /\ call.op = "detect_shoe" =>
           IF OwnsShoe THEN ret.error = None /\ loc.now \in Times
           ELSE /\ ret.status = 404 /\ ret.error = "Shoe not found for this user"
                /\ NothingRecommended
    /\ call.op = "build_mcu_all_items" =>
           IF OwnsShoe THEN ret.error = None /\ loc.now \in Times
           ELSE /\ ret.error = "Shoe not found"
                /\ NothingRecommended

\* C11 witness: the users table is not empty and holds events of other
\* users, the asking user has no record, and the request ends in 404 with
\* nothing recommended
C11_Witness ==
    /\ call.op = "get_recommendations" /\ ~HasRecord
    /\ users # {} /\ events # {}
    /\ ret.status = 404 /\ ret.items = <<>> /\ loc.now \notin Times

\* a handler has returned the tuple of infer_recommendations
TupleReturned ==
    call.op \in {"get_recommendations", "detect_shoe"} /\ ret.error = None

\* the rows of activity_item_rules of an activity
RowsOfAct(act) == {i \in 1..Len(rules) : rules[i].act_type = act}

\* the current event's activity type is null or no rule row is about it
CurrentHasNoRules ==
    \/ ret.current_event.act_type = None
    \/ RowsOfAct(ret.current_event.act_type) = {}

\* the rows of common_items_by_shoe of the shoe of the request
RowsOfShoe == {i \in 1..Len(shoe_items) : shoe_items[i].shoe_id = call.shoe_id}

\* C12: missing rule data is no failure.  When the current event's activity
\* type is null or has no rules, the current event is still returned and it
\* contributes no item: every returned item is named by a rule of the next
\* activity, with include_next.  When the worn shoe has no common-item rows,
\* build_mcu_all_items returns an empty common_items_by_shoe and still the
\* fixed common items and the recommendations
C12_MissingRuleDataIsEmpty ==
    /\ (TupleReturned /\ OwnUpcoming # {} /\ CurrentHasNoRules) =>
           /\ ret.current_event \in OwnUpcoming
           /\ ~loc.include_next => ret.items = <<>>
           /\ \A x \in Range(ret.items) :
                  \E i \in RowsOfAct(loc.next_used.act_type) :
                      rules[i].item_name = x
    /\ (call.op = "build_mcu_all_items" /\ OwnsShoe /\ RowsOfShoe = {}) =>
           /\ ret.error = None
           /\ ret.common_items_by_shoe = <<>>
           /\ ret.common_items = <<"phone", "wallet", "key">>
           /\ Range(ret.recommendations)
                  = Range(loc.rec_items) \cup Range(loc.friend_recs)

\* C12 witness: the table of common items has rows, none of the shoe of
\* the request, and build_mcu_all_items returns recommendations all the same
C12_Witness ==
    /\ call.op = "build_mcu_all_items" /\ OwnsShoe /\ RowsOfShoe = {}
    /\ shoe_items # <<>>
    /\ ret.common_items_by_shoe = <<>> /\ ret.recommendations # <<>>

----------------------------------------------------------------------------
\* The items when only the current event contributes

\* the rows of the store about the current event's activity, in row order
CurrentRows ==
    IF Truthy(ret.current_event.act_type)
    THEN SelectSeq(rules, LAMBDA r : r.act_type = ret.current_event.act_type)
    ELSE <<>>

\* the items computed from rows of one activity alone, for a worn shoe:
\* nothing of the store but `rows` is read
ItemsOfRows(rows, shoe_type) ==
    LET usable     == SelectSeq(rows, LAMBDA r : r.shoe_type \in {None, shoe_type})
        candidates == SortedByScoreDesc(acc(<<>>, usable))
        top3       == Top3(candidates)
    IN  top3 \o ExtraLoop(candidates, top3, {}, <<>>)

\* C13: when include_next is false the returned items, order included, are
\* a function of the worn shoe and of the store's rows about the current
\* event's activity alone; so two stores that agree on the current event
\* and on these rows, and differ in the rows of the next event's activity
\* with include_next false in both, return the same items in the same order
C13_OnlyCurrentContributes ==
    (InferDone /\ ret.current_event # NoEvent /\ ~loc.include_next) =>
        ret.items = ItemsOfRows(CurrentRows, call.shoe_type)

\* C13 witness: include_next is false, items are returned, and the store has
\* a row of the next event's activity, another activity than the current
\* one, usable with the worn shoe, that names an item and is not flagged
\* default
C13_Witness ==
    /\ InferDone /\ ~loc.include_next /\ ret.items # <<>>
    /\ loc.next_used # NoEvent
    /\ loc.next_used.act_type # ret.current_event.act_type
    /\ \E i \in 1..Len(rules) :
           /\ rules[i].act_type = loc.next_used.act_type
           /\ rules[i].shoe_type \in {None, call.shoe_type}
           /\ Truthy(rules[i].item_name) /\ ~rules[i].is_default
           /\ rules[i].item_name \notin Range(ret.items)

----------------------------------------------------------------------------
\* Order of the returned items

\* position of rule row i in the rows read: the rows of the current
\* activity come before the rows of the next activity
RowRank(i) ==
    IF rules[i].act_type = ret.current_event.act_type THEN i ELSE Len(rules) + i

\* the rows read that name n: rows of a scored activity with a null or the
\* worn shoe_type
RowsNaming(n) ==
    {i \in 1..Len(rules) : RowConsidered(i) /\ rules[i].item_name = n}

\* the rows that are scored and name n
ScoredRowsNaming(n) == {i \in RowsNaming(n) : RowScored(i)}

\* least rank of the rows of S
FirstRank(S) ==
    CHOOSE k \in {RowRank(i) : i \in S} : \A i \in S : k <= RowRank(i)

\* C14 as stated: the returned items are in non-increasing score order, and
\* of two returned items of equal score the one whose name occurs first in
\* the rule rows read, current-activity rows before next-activity rows,
\* comes first
C14_AsStated ==
    (InferDone /\ ret.current_event # NoEvent) =>
        \A a, b \in 1..Len(ret.items) :
            a < b =>
               /\ ScoreOf(ret.items[a]) >= ScoreOf(ret.items[b])
               /\ ScoreOf(ret.items[a]) = ScoreOf(ret.items[b])
                      => FirstRank(RowsNaming(ret.items[a]))
                             < FirstRank(RowsNaming(ret.items[b]))

\* C14 amended: the same, with the first occurrence taken among the rows
\* that are scored, that is, not flagged default
C14_ScoreThenFirstScoredRow ==
    (InferDone /\ ret.current_event # NoEvent) =>
        \A a, b \in 1..Len(ret.items) :
            a < b =>
               /\ ScoreOf(ret.items[a]) >= ScoreOf(ret.items[b])
               /\ ScoreOf(ret.items[a]) = ScoreOf(ret.items[b])
                      => FirstRank(ScoredRowsNaming(ret.items[a]))
                             < FirstRank(ScoredRowsNaming(ret.items[b]))

\* C14 witness: two returned items of equal score, the second one named
\* first by a row flagged default, ahead of every row that names the first
C14_Witness ==
    /\ InferDone /\ Len(ret.items) >= 2
    /\ ScoreOf(ret.items[1]) = ScoreOf(ret.items[2])
    /\ FirstRank(RowsNaming(ret.items[2])) < FirstRank(RowsNaming(ret.items[1]))
    /\ FirstRank(ScoredRowsNaming(ret.items[1]))
           < FirstRank(ScoredRowsNaming(ret.items[2]))

----------------------------------------------------------------------------
\* Encounter items

\* a pair of events of the table: an upcoming event of the asking user and
\* an event of a counterpart named by one of the user's encounter rules
EncounterPairs ==
    {p \in events \X events :
        /\ p[1].user_id = call.user_id /\ p[1].start_time >= loc.friend_now
        /\ \E i \in OwnCarryRules : friends[i].friend_name = p[2].user_name}

\* the two events touch: one ends exactly when the other starts
Touching(p) ==
    p[1].end_time = p[2].start_time \/ p[2].end_time = p[1].start_time

\* C15: every encounter item returned is the item of an encounter rule of
\* the user whose counterpart has an event overlapping in time, at an equal
\* non-empty location, an event of the user that starts at or after the
\* reference time; so events that only touch, events at different locations
\* and events without a location yield nothing; and the overlap test gives
\* the same answer with the two events exchanged
C15_ItemsJustifiedByEncounter ==
    /\ McuDone =>
           \A x \in Range(loc.friend_recs) :
               \E i \in OwnCarryRules :
                   /\ friends[i].carry_item = x
                   /\ Meetings(friends[i].friend_name, loc.friend_now) # {}
    /\ (McuDone /\ \A p \in EncounterPairs :
                       \/ Touching(p)
                       \/ p[1].location # p[2].location
                       \/ p[1].location = None \/ p[2].location = None)
           => loc.friend_recs = <<>>
    /\ \A a_start, a_end, b_start, b_end \in Times :
           _time_overlap(a_start, a_end, b_start, b_end)
               = _time_overlap(b_start, b_end, a_start, a_end)

\* C15 witness: an encounter item is returned, and the table also holds a
\* pair that only touches at the same location, a pair at different
\* locations or a pair of events both without a location
C15_Witness ==
    /\ McuDone /\ loc.friend_recs # <<>>
    /\ \E p \in EncounterPairs :
           \/ Touching(p) /\ p[1].location = p[2].location
           \/ p[1].location # p[2].location
           \/ p[1].location = None /\ p[2].location = None

----------------------------------------------------------------------------
\* Events of the same default shoe

\* the current event and the event after it resolve to the same default
\* shoe (none included), as two events of the same activity type do
SameDefaultShoe ==
    /\ ret.current_event # NoEvent /\ loc.next_used # NoEvent
    /\ DefaultShoe(ret.current_event.act_type) = DefaultShoe(loc.next_used.act_type)

\* C16: when the current and the next event resolve to the same default
\* shoe, in particular when they have the same activity type, include_next
\* is false whatever the worn shoe, no next_event is returned and only the
\* rows of the current activity are scored
C16_SameShoeNeverContinues ==
    /\ (InferDone /\ ret.current_event # NoEvent /\ loc.next_used # NoEvent
            /\ ret.current_event.act_type = loc.next_used.act_type)
           => SameDefaultShoe
    /\ (InferDone /\ SameDefaultShoe) =>
           /\ ~loc.include_next
           /\ ret.next_event = NoEvent
           /\ \A n \in CandNames :
                  \E i \in 1..Len(CurrentRows) : CurrentRows[i].item_name = n
           /\ ret.items = ItemsOfRows(CurrentRows, call.shoe_type)

\* C16 witness: two events of different activity types whose default shoe
\* is the same known shoe, which is the worn one, and the next activity has
\* a row that could be scored; no next_event is returned
C16_Witness ==
    /\ InferDone /\ SameDefaultShoe
    /\ ret.current_event.act_type # loc.next_used.act_type
    /\ Truthy(DefaultShoe(loc.next_used.act_type))
    /\ call.shoe_type = DefaultShoe(loc.next_used.act_type)
    /\ \E i \in 1..Len(rules) :
           /\ rules[i].act_type = loc.next_used.act_type
           /\ rules[i].shoe_type \in {None, call.shoe_type}
           /\ ~rules[i].is_default
    /\ ~loc.include_next /\ ret.next_event = NoEvent /\ ret.items # <<>>

====
